---------------------------- MODULE Spec2Model ----------------------------
(***************************************************************************)
(* A model of SQLiteHelper.py: the identifier sanitizer, the translation   *)
(* of an INI section into a CREATE TABLE statement, and the query executor *)
(* with the CRUD / aggregate API built on it.                              *)
(*                                                                         *)
(* Text is modelled as a sequence of one-character strings, so that the    *)
(* regular expression, rstrip and the value formatting act on characters   *)
(* as the Python code does.                                                *)
(*                                                                         *)
(* Three specifications share the module:                                  *)
(*   SanSpec     sanitize_identifier applied to bounded strings            *)
(*   CreateSpec  _parse_table_config and __create_table on bounded configs *)
(*   Spec        an instance over the table [t] *id=INTEGER, name=TEXT     *)
(***************************************************************************)
EXTENDS Integers, Sequences, FiniteSets, TLC

VARIABLES
    identifier,       \* sanitize_identifier: its argument
    san_outcome,      \* "none" before the call, then "returned" or "ValueError"
    san_value,        \* the value returned (<<>> when nothing was returned)
    config,           \* __config: the section as a sequence of <<key, value>>
    config_list,      \* __config_list: sequence of <<column_def, is_primary_key>>
    command_string,   \* the statement __create_table hands to the engine
    phase,            \* construction: "loaded", "parsed", "created"
    committed,        \* rows of table t in the database file
    visible,          \* rows of table t as the instance's connection sees them
    in_transaction,   \* conn.in_transaction
    conn_open,        \* the connection has not been closed
    last              \* the last API call: arguments, engine outcome, result

sanVars == <<identifier, san_outcome, san_value>>
createVars == <<config, config_list, command_string, phase>>
dbVars == <<committed, visible, in_transaction, conn_open, last>>
vars == <<identifier, san_outcome, san_value, config, config_list,
          command_string, phase, committed, visible, in_transaction,
          conn_open, last>>

---------------------------------------------------------------------------
(* Characters and text helpers                                             *)

LowerCase == {"a", "b", "c", "d", "e", "f", "g", "h", "i", "j", "k", "l", "m",
              "n", "o", "p", "q", "r", "s", "t", "u", "v", "w", "x", "y", "z"}
UpperCase == {"A", "B", "C", "D", "E", "F", "G", "H", "I", "J", "K", "L", "M",
              "N", "O", "P", "Q", "R", "S", "T", "U", "V", "W", "X", "Y", "Z"}
Letters == LowerCase \cup UpperCase
Digits == {"0", "1", "2", "3", "4", "5", "6", "7", "8", "9"}
Underscore == "_"

\* The characters of the identifiers tried: a letter of each case, a digit,
\* the underscore, the three whitespace characters, and ; ' -
Chars == {"a", "Z", "1", "_", " ", "\t", "\n", ";", "'", "-"}

\* Longest identifier handed to sanitize_identifier.
MaxIdentLen == 3

\* All texts over S of length at most n.
TextsUpTo(S, n) == UNION {[1..k -> S] : k \in 0..n}

\* [A-Za-z_]
HeadClass == Letters \cup {Underscore}
\* [A-Za-z0-9_]
TailClass == Letters \cup Digits \cup {Underscore}

\* The '$' of Python's re (no MULTILINE flag) at position k of s, k being the
\* number of characters consumed: the end of the string, or just before a
\* newline that is the last character.
DollarMatchesAt(s, k) ==
    \/ k = Len(s)
    \/ k = Len(s) - 1 /\ s[Len(s)] = "\n"

\* re.match(r'^[A-Za-z_][A-Za-z0-9_]*$', s) is not None
ReMatchIdentifier(s) ==
    \E k \in 1..Len(s) :
        /\ s[1] \in HeadClass
        /\ \A i \in 2..k : s[i] \in TailClass
        /\ DollarMatchesAt(s, k)

\* sanitize_identifier(identifier): the outcome and the value returned.
sanitize_identifier(s) ==
    IF ~ReMatchIdentifier(s)
    THEN [outcome |-> "ValueError", value |-> <<>>]
    ELSE [outcome |-> "returned", value |-> s]

---------------------------------------------------------------------------
(* SanSpec: sanitize_identifier on every text of at most MaxIdentLen       *)
(* characters.                                                             *)

SanIdle ==
    /\ identifier = <<>>
    /\ san_outcome = "none"
    /\ san_value = <<>>

SanInit ==
    /\ identifier \in TextsUpTo(Chars, MaxIdentLen)
    /\ san_outcome = "none"
    /\ san_value = <<>>

Sanitize ==
    /\ san_outcome = "none"
    /\ LET r == sanitize_identifier(identifier)
       IN  /\ san_outcome' = r.outcome
           /\ san_value' = r.value
    /\ UNCHANGED identifier

---------------------------------------------------------------------------
(* Construction: the INI section, _parse_table_config and __create_table   *)

\* Most columns in a config section.
MaxColumns == 3

\* sep.join(parts)
RECURSIVE Join(_, _)
Join(sep, parts) ==
    IF Len(parts) = 0 THEN <<>>
    ELSE IF Len(parts) = 1 THEN parts[1]
    ELSE parts[1] \o sep \o Join(sep, Tail(parts))

\* s.replace(c, "")
RECURSIVE RemoveChar(_, _)
RemoveChar(s, c) ==
    IF Len(s) = 0 THEN <<>>
    ELSE IF Head(s) = c THEN RemoveChar(Tail(s), c)
    ELSE <<Head(s)>> \o RemoveChar(Tail(s), c)

\* s.split(c)[0]
RECURSIVE SplitFirst(_, _)
SplitFirst(s, c) ==
    IF Len(s) = 0 \/ Head(s) = c THEN <<>>
    ELSE <<Head(s)>> \o SplitFirst(Tail(s), c)

\* s.rstrip(chars)
RECURSIVE RStrip(_, _)
RStrip(s, chars) ==
    IF Len(s) > 0 /\ s[Len(s)] \in chars
    THEN RStrip(SubSeq(s, 1, Len(s) - 1), chars)
    ELSE s

ID == <<"i", "d">>
NAME == <<"n", "a", "m", "e">>
AGE == <<"a", "g", "e">>
INTEGER == <<"I", "N", "T", "E", "G", "E", "R">>
TEXT == <<"T", "E", "X", "T">>
Star(key) == <<"*">> \o key

\* The table of the instance (db_name).
db_name == <<"t">>

\* Keys and values a section may hold: a column name, with a leading '*' when
\* it is part of the primary key, and an SQL type.
ConfigKeys == {ID, NAME, AGE, Star(ID), Star(NAME), Star(AGE)}
ConfigTypes == {INTEGER, TEXT}

\* The sections _load_config can return: ConfigParser keeps the declaration
\* order and refuses a section that repeats a key.
Configs ==
    {c \in UNION {[1..n -> ConfigKeys \X ConfigTypes] : n \in 0..MaxColumns} :
        \A i, j \in 1..Len(c) : i # j => c[i][1] # c[j][1]}

\* _parse_table_config(input_config)
RECURSIVE _parse_table_config(_)
_parse_table_config(input_config) ==
    IF Len(input_config) = 0 THEN <<>>
    ELSE LET key == input_config[1][1]
             value == input_config[1][2]
         IN  << <<RemoveChar(key, "*") \o <<" ">> \o value, key[1] = "*">> >>
             \o _parse_table_config(Tail(input_config))

CreateHeader ==
    <<"C","R","E","A","T","E"," ","T","A","B","L","E"," ","I","F"," ",
      "N","O","T"," ","E","X","I","S","T","S"," ">>
PrimaryKeyOpen == <<"P","R","I","M","A","R","Y"," ","K","E","Y"," ","(">>

\* The loop of __create_table: the text appended for the columns, and the
\* primary key fields collected.
RECURSIVE ColumnsText(_)
ColumnsText(table_layout) ==
    IF Len(table_layout) = 0 THEN <<>>
    ELSE table_layout[1][1] \o <<",", " ">> \o ColumnsText(Tail(table_layout))

RECURSIVE PrimaryKeyFields(_)
PrimaryKeyFields(table_layout) ==
    IF Len(table_layout) = 0 THEN <<>>
    ELSE (IF table_layout[1][2]
          THEN <<SplitFirst(table_layout[1][1], " ")>>
          ELSE <<>>)
         \o PrimaryKeyFields(Tail(table_layout))

\* CreateTail with the rstrip forgotten.
CreateTailNoStrip(text, primary_key_fields) ==
    IF Len(primary_key_fields) > 0
    THEN text \o PrimaryKeyOpen \o Join(<<",", " ">>, primary_key_fields) \o <<")">>
    ELSE text

\* The tail of the statement, after the loop.
CreateTail(text, primary_key_fields) ==
    IF Len(primary_key_fields) > 0
    THEN text \o PrimaryKeyOpen \o Join(<<",", " ">>, primary_key_fields) \o <<")">>
    ELSE RStrip(text, {",", " "})

\* __create_table: the statement text it builds.
CreateTableCommand(table_name, table_layout) ==
    CreateTail(CreateHeader \o table_name \o <<" ", "(">> \o ColumnsText(table_layout),
               PrimaryKeyFields(table_layout))
    \o <<")">>

CreateIdle ==
    /\ config = <<>>
    /\ config_list = <<>>
    /\ command_string = <<>>
    /\ phase = "idle"

CreateInit ==
    /\ config \in Configs
    /\ config_list = <<>>
    /\ command_string = <<>>
    /\ phase = "loaded"

\* __init__, line 58
ParseTableConfig ==
    /\ phase = "loaded"
    /\ config_list' = _parse_table_config(config)
    /\ phase' = "parsed"
    /\ UNCHANGED <<config, command_string>>

\* __init__, line 62
CreateTable ==
    /\ phase = "parsed"
    /\ command_string' = CreateTableCommand(db_name, config_list)
    /\ phase' = "created"
    /\ UNCHANGED <<config, config_list>>

---------------------------------------------------------------------------
(* Values: Python's int, str and None, and SQLite's INTEGER, TEXT, REAL    *)
(* and NULL, which the sqlite3 module maps onto each other.  A REAL is     *)
(* kept as the fraction num/den in lowest terms.                           *)

IntVal(n) == [type |-> "int", num |-> n, den |-> 1, text |-> <<>>]
StrVal(s) == [type |-> "str", num |-> 0, den |-> 1, text |-> s]
None == [type |-> "NoneType", num |-> 0, den |-> 1, text |-> <<>>]

RECURSIVE GCD(_, _)
GCD(a, b) == IF b = 0 THEN a ELSE GCD(b, a % b)

FloatVal(n, d) == [type |-> "float", num |-> n \div GCD(n, d),
                den |-> d \div GCD(n, d), text |-> <<>>]

Range(f) == {f[i] : i \in DOMAIN f}

\* F(v), with v evaluated once.
With(v, F(_)) == CHOOSE y \in {F(x) : x \in {v}} : TRUE

DigitChars == <<"0", "1", "2", "3", "4", "5", "6", "7", "8", "9">>

\* str(n) for n >= 0
RECURSIVE Decimal(_)
Decimal(n) ==
    IF n < 10 THEN <<DigitChars[n + 1]>>
    ELSE Decimal(n \div 10) \o <<DigitChars[(n % 10) + 1]>>

DigitValue(c) == CHOOSE d \in 0..9 : DigitChars[d + 1] = c

\* The number a text of digits denotes.
RECURSIVE Numeral(_)
Numeral(t) ==
    IF Len(t) = 0 THEN 0
    ELSE 10 * Numeral(SubSeq(t, 1, Len(t) - 1)) + DigitValue(t[Len(t)])

NullText == <<"N", "U", "L", "L">>

\* insert_data / update_data: a value written into the statement text.
FormatValue(value) ==
    IF value.type = "str" THEN <<"'">> \o value.text \o <<"'">>
    ELSE IF value.type = "NoneType" THEN NullText
    ELSE Decimal(value.num)

\* The engine reading a string literal, rest being the text after the opening
\* quote: '' is one quote character, a single ' closes the literal.  For the
\* value texts of this model (no blank, comma or operator) anything after the
\* closing quote, and a literal that is never closed, is a syntax error.
RECURSIVE ScanString(_, _)
ScanString(rest, acc) ==
    IF Len(rest) = 0 THEN [ok |-> FALSE, value |-> None]
    ELSE IF rest[1] = "'"
         THEN IF Len(rest) >= 2 /\ rest[2] = "'"
              THEN ScanString(SubSeq(rest, 3, Len(rest)), acc \o <<"'">>)
              ELSE IF Len(rest) = 1
                   THEN [ok |-> TRUE, value |-> StrVal(acc)]
                   ELSE [ok |-> FALSE, value |-> None]
         ELSE ScanString(Tail(rest), acc \o <<rest[1]>>)

\* The engine reading one value expression of a statement.
ParseLiteral(t) ==
    IF t = NullText THEN [ok |-> TRUE, value |-> None]
    ELSE IF Len(t) > 0 /\ \A i \in 1..Len(t) : t[i] \in Digits
         THEN [ok |-> TRUE, value |-> IntVal(Numeral(t))]
    ELSE IF Len(t) > 0 /\ t[1] = "'"
         THEN ScanString(Tail(t), <<>>)
    ELSE [ok |-> FALSE, value |-> None]

---------------------------------------------------------------------------
(* The table t of the instance: [t] *id=INTEGER, name=TEXT.  A row is a    *)
(* function from the column names to values; id, the INTEGER primary key,  *)
(* is unique and never NULL.                                               *)

\* Largest id a caller passes.
MaxId == 2

Columns == {ID, NAME}
NOPE == <<"n", "o", "p", "e">>
INJECTED == <<"i", "d", ";">>
TOTAL == <<"t", "o", "t", "a", "l">>

\* A WHERE clause: absent, or the text "<col> = <val>".  delete_data's
\* "<col> = ?" with its bound parameter is written the same way.
NoWhere == [present |-> FALSE, col |-> <<>>, val |-> None]
Where(col, val) == [present |-> TRUE, col |-> col, val |-> val]

\* A statement text, kept as the parts the code composes it from.
Statement(kind, fn, columns, values, where) ==
    [kind |-> kind, fn |-> fn, columns |-> columns, values |-> values,
     where |-> where]

Row(id, name) == [c \in Columns |-> IF c = ID THEN id ELSE name]

RowIds(table) == {r[ID].num : r \in table}

MaxRowId(table) ==
    IF table = {} THEN 0
    ELSE CHOOSE m \in RowIds(table) : \A k \in RowIds(table) : k <= m

\* The rows in rowid order, the order in which the engine returns them.
RECURSIVE SortedRows(_)
SortedRows(table) ==
    IF table = {} THEN <<>>
    ELSE LET first == CHOOSE r \in table :
                          \A q \in table : r[ID].num <= q[ID].num
         IN  <<first>> \o SortedRows(table \ {first})

\* SQL's '=': never true of NULL.
SqlEq(a, b) == a.type # "NoneType" /\ b.type # "NoneType" /\ a = b

WhereResolves(w) == ~w.present \/ w.col \in Columns
Matches(row, w) == ~w.present \/ SqlEq(row[w.col], w.val)

\* The value a statement gives column c, None when it names no such column
\* (the last mention counts).
Given(columns, parsed, c) ==
    IF \E i \in 1..Len(columns) : columns[i] = c
    THEN parsed[CHOOSE i \in 1..Len(columns) :
                    /\ columns[i] = c
                    /\ \A j \in 1..Len(columns) : columns[j] = c => j <= i].value
    ELSE None

Rejected(table) == [ok |-> FALSE, table |-> table, rows |-> <<>>, description |-> <<>>]
Accepted(table, rows, description) ==
    [ok |-> TRUE, table |-> table, rows |-> rows, description |-> description]

EngineSelect(table, stmt) ==
    IF /\ Len(stmt.columns) > 0
       /\ \A i \in 1..Len(stmt.columns) : stmt.columns[i] \in Columns
       /\ WhereResolves(stmt.where)
    THEN LET hit == SortedRows({r \in table : Matches(r, stmt.where)})
         IN  Accepted(table,
                      [i \in 1..Len(hit) |->
                          [j \in 1..Len(stmt.columns) |-> hit[i][stmt.columns[j]]]],
                      stmt.columns)
    ELSE Rejected(table)

EngineInsert(table, stmt) ==
    LET parsed == [i \in 1..Len(stmt.values) |-> ParseLiteral(stmt.values[i])]
        idGiven == Given(stmt.columns, parsed, ID)
        id == IF idGiven.type = "NoneType" THEN IntVal(MaxRowId(table) + 1) ELSE idGiven
    IN  IF /\ Len(stmt.columns) > 0
           /\ Len(stmt.columns) = Len(stmt.values)
           /\ \A i \in 1..Len(stmt.columns) : stmt.columns[i] \in Columns
           /\ \A i \in 1..Len(parsed) : parsed[i].ok
           /\ id.type = "int"
           /\ id.num \notin RowIds(table)
        THEN Accepted(table \cup {Row(id, Given(stmt.columns, parsed, NAME))}, <<>>, <<>>)
        ELSE Rejected(table)

EngineDelete(table, stmt) ==
    IF WhereResolves(stmt.where)
    THEN Accepted({r \in table : ~Matches(r, stmt.where)}, <<>>, <<>>)
    ELSE Rejected(table)

EngineUpdate(table, stmt) ==
    LET parsed == [i \in 1..Len(stmt.values) |-> ParseLiteral(stmt.values[i])]
        Set(c) == \E i \in 1..Len(stmt.columns) : stmt.columns[i] = c
        New(r) == IF Matches(r, stmt.where)
                  THEN [c \in Columns |->
                           IF Set(c) THEN Given(stmt.columns, parsed, c) ELSE r[c]]
                  ELSE r
    IN  IF /\ Len(stmt.columns) > 0
           /\ Len(stmt.columns) = Len(stmt.values)
           /\ \A i \in 1..Len(stmt.columns) : stmt.columns[i] \in Columns
           /\ \A i \in 1..Len(parsed) : parsed[i].ok
           /\ stmt.where.present /\ WhereResolves(stmt.where)
           /\ \A r \in table : New(r)[ID].type = "int"
           /\ \A r, q \in table : r # q => New(r)[ID] # New(q)[ID]
        THEN Accepted({New(r) : r \in table}, <<>>, <<>>)
        ELSE Rejected(table)

MIN == <<"M", "I", "N">>
MAX == <<"M", "A", "X">>
AVG == <<"A", "V", "G">>

\* "MIN(id)": the name the engine gives the result column.
AggregateName(fn, column) == fn \o <<"(">> \o column \o <<")">>

RECURSIVE SumOf(_)
SumOf(S) == IF S = {} THEN 0 ELSE LET x == CHOOSE x \in S : TRUE IN x + SumOf(S \ {x})

\* MIN, MAX, AVG over the INTEGER values of a column (NULLs are skipped).
AggregateValue(fn, table, column) ==
    LET xs == {r[column].num : r \in {q \in table : q[column].type = "int"}}
    IN  IF xs = {} THEN None
        ELSE IF fn = MIN THEN IntVal(CHOOSE m \in xs : \A k \in xs : m <= k)
        ELSE IF fn = MAX THEN IntVal(CHOOSE m \in xs : \A k \in xs : k <= m)
        ELSE FloatVal(SumOf(xs), Cardinality(xs))

EngineAggregate(table, stmt) ==
    IF Len(stmt.columns) = 1 /\ stmt.columns[1] \in Columns
    THEN Accepted(table,
                  << <<AggregateValue(stmt.fn, table, stmt.columns[1])>> >>,
                  <<AggregateName(stmt.fn, stmt.columns[1])>>)
    ELSE Rejected(table)

EngineCount(table, stmt) ==
    IF WhereResolves(stmt.where)
    THEN Accepted(table,
                  << <<IntVal(Cardinality({r \in table : Matches(r, stmt.where)}))>> >>,
                  <<TOTAL>>)
    ELSE Rejected(table)

\* The engine running one statement on the table as the connection sees it:
\* whether it accepts it, the table afterwards (a rejected statement changes
\* nothing), the result rows and their column names.
EngineExecute(table, stmt) ==
    CASE stmt.kind = "SELECT" -> EngineSelect(table, stmt)
      [] stmt.kind = "INSERT" -> EngineInsert(table, stmt)
      [] stmt.kind = "DELETE" -> EngineDelete(table, stmt)
      [] stmt.kind = "UPDATE" -> EngineUpdate(table, stmt)
      [] stmt.kind = "AGGREGATE" -> EngineAggregate(table, stmt)
      [] stmt.kind = "COUNT" -> EngineCount(table, stmt)

IsDML(stmt) == stmt.kind \in {"INSERT", "DELETE", "UPDATE"}

---------------------------------------------------------------------------
(* The connection of an instance, st = [committed, visible, in_transaction] *)
(* and the methods of SQLiteHelper as operators on it.                     *)

\* cursor.execute(query): the sqlite3 module opens a transaction before an
\* INSERT, UPDATE or DELETE when none is open.  (Whether a rejected statement
\* leaves a transaction open is not kept: every caller rolls back then.)
CursorExecute(st, query) ==
    With(EngineExecute(st.visible, query), LAMBDA r :
        [ok |-> r.ok,
         st |-> [st EXCEPT !.visible = r.table,
                           !.in_transaction = @ \/ (r.ok /\ IsDML(query))],
         rows |-> r.rows,
         description |-> r.description])

\* conn.commit()
ConnCommit(st) == [st EXCEPT !.committed = st.visible, !.in_transaction = FALSE]

\* conn.rollback()
ConnRollback(st) == [st EXCEPT !.visible = st.committed, !.in_transaction = FALSE]

\* conn.close(): an open transaction is discarded.
ConnClose(st) == [st EXCEPT !.visible = st.committed, !.in_transaction = FALSE]

\* dict(row) for a sqlite3.Row
RowDict(description, tuple) ==
    [k \in Range(description) |->
        tuple[CHOOSE i \in 1..Len(description) :
                  /\ description[i] = k
                  /\ \A j \in 1..Len(description) : description[j] = k => j <= i]]

\* What a method hands back: a (rows, success) pair, a (message, success)
\* pair, an integer, or nothing when it raised.
RowsRet(rows, success) ==
    [kind |-> "rows", rows |-> rows, success |-> success, message |-> "", value |-> 0]
MessageRet(message, rows, success) ==
    [kind |-> "message", rows |-> rows, success |-> success, message |-> message,
     value |-> 0]
IntRet(n) ==
    [kind |-> "int", rows |-> <<>>, success |-> FALSE, message |-> "", value |-> n]
NoRet ==
    [kind |-> "none", rows |-> <<>>, success |-> FALSE, message |-> "", value |-> 0]

\* The outcome of a method call: the connection afterwards, whether a
\* statement was handed to the engine and accepted by it, the exception that
\* reached the caller ("" for none), the value returned, and the engine's rows.
Outcome(st, sent, accepted, raised, ret, engine_rows, description) ==
    [st |-> st, sent |-> sent, accepted |-> accepted, raised |-> raised,
     ret |-> ret, engine_rows |-> engine_rows, description |-> description]

\* execute_query with the rollback of the except branch forgotten.
execute_query_without_rollback(st, query) ==
    With(CursorExecute(st, query), LAMBDA x :
        IF x.ok
        THEN Outcome(ConnCommit(x.st), TRUE, TRUE, "",
                     RowsRet([i \in 1..Len(x.rows) |-> RowDict(x.description, x.rows[i])],
                             TRUE),
                     x.rows, x.description)
        ELSE Outcome(x.st, TRUE, FALSE, "", RowsRet(<<>>, FALSE), <<>>, <<>>))

\* execute_query(query, params), the params being part of query.where
execute_query(st, query) ==
    With(CursorExecute(st, query), LAMBDA x :
        IF x.ok
        THEN Outcome(ConnCommit(x.st), TRUE, TRUE, "",
                     RowsRet([i \in 1..Len(x.rows) |-> RowDict(x.description, x.rows[i])],
                             TRUE),
                     x.rows, x.description)
        ELSE Outcome(ConnRollback(x.st), TRUE, FALSE, "",
                     RowsRet(<<>>, FALSE), <<>>, <<>>))

\* "if data:" for the 2-tuple execute_query returns
TupleIsTruthy(data) == Len(<<data.rows, data.success>>) > 0

\* "if selection_where:" / "if where_clause:"
WhereIfGiven(where_clause) == IF where_clause.present THEN where_clause ELSE NoWhere

SelectQuery(selection_items, selection_where) ==
    Statement("SELECT", <<>>, selection_items, <<>>, WhereIfGiven(selection_where))

select_data(st, selection_items, selection_where) ==
    With(execute_query(st, SelectQuery(selection_items, selection_where)), LAMBDA data :
        IF TupleIsTruthy(data.ret)
        THEN data
        ELSE [data EXCEPT !.ret = RowsRet(<<>>, FALSE)])

InsertQuery(query_columns, query_values) ==
    Statement("INSERT", <<>>, query_columns,
              [i \in 1..Len(query_values) |-> FormatValue(query_values[i])], NoWhere)

insert_data(st, query_columns, query_values) ==
    With(CursorExecute(st, InsertQuery(query_columns, query_values)), LAMBDA x :
        IF x.ok
        THEN Outcome(x.st, TRUE, TRUE, "",
                     MessageRet("Data inserted successfully.", <<>>, TRUE), <<>>, <<>>)
        ELSE Outcome(ConnRollback(x.st), TRUE, FALSE, "",
                     MessageRet("Insertion failed, rolled back.", <<>>, FALSE),
                     <<>>, <<>>))

\* DeleteQuery with the WHERE clause forgotten.
DeleteQueryWithoutWhere(column_name, value_to_delete) ==
    Statement("DELETE", <<>>, <<>>, <<>>, NoWhere)

DeleteQuery(column_name, value_to_delete) ==
    Statement("DELETE", <<>>, <<>>, <<>>, Where(column_name, value_to_delete))

delete_data(st, column_name, value_to_delete) ==
    With(execute_query(st, DeleteQuery(column_name, value_to_delete)), LAMBDA data :
        [data EXCEPT !.ret = MessageRet("Data deleted successfully", <<>>, TRUE)])

\* merged_dict.update(dictionary) for each single-key dictionary in turn; a
\* dict is kept as its <<key, value>> items in insertion order.
DictUpdate(merged, item) ==
    IF \E i \in 1..Len(merged) : merged[i][1] = item[1]
    THEN [i \in 1..Len(merged) |-> IF merged[i][1] = item[1] THEN item ELSE merged[i]]
    ELSE Append(merged, item)

RECURSIVE MergeDicts(_, _)
MergeDicts(merged, dictionaries) ==
    IF Len(dictionaries) = 0 THEN merged
    ELSE MergeDicts(DictUpdate(merged, dictionaries[1]), Tail(dictionaries))

UpdateQuery(update_data_dictionaries, where_clause) ==
    LET merged_dict == MergeDicts(<<>>, update_data_dictionaries)
    IN  Statement("UPDATE", <<>>,
                  [i \in 1..Len(merged_dict) |-> merged_dict[i][1]],
                  [i \in 1..Len(merged_dict) |-> FormatValue(merged_dict[i][2])],
                  where_clause)

update_data(st, update_data_dictionaries, where_clause) ==
    With(execute_query(st, UpdateQuery(update_data_dictionaries, where_clause)),
         LAMBDA data :
        [data EXCEPT !.ret = MessageRet("Data updated successfully.", <<>>, TRUE)])

AggregateQuery(fn, column_name) == Statement("AGGREGATE", fn, <<column_name>>, <<>>, NoWhere)

\* select_min, select_max, select_avg: the message quotes the data returned.
AggregateMessage(fn) ==
    IF fn = MIN THEN "Minimum from" ELSE IF fn = MAX THEN "Maximum from"
    ELSE "Average from"

select_aggregate(st, fn, column_name) ==
    With(execute_query(st, AggregateQuery(fn, column_name)), LAMBDA data :
        [data EXCEPT !.ret = MessageRet(AggregateMessage(fn), data.ret.rows, TRUE)])

CountQuery(where_clause) == Statement("COUNT", <<>>, <<>>, <<>>, WhereIfGiven(where_clause))

\* count: data[0][0]['total'] if data else 0
count(st, where_clause) ==
    With(execute_query(st, CountQuery(where_clause)), LAMBDA data :
        IF TupleIsTruthy(data.ret)
        THEN IF Len(data.ret.rows) = 0
             THEN [data EXCEPT !.raised = "IndexError", !.ret = NoRet]
             ELSE [data EXCEPT !.ret = IntRet(data.ret.rows[1][TOTAL].num)]
        ELSE [data EXCEPT !.ret = IntRet(0)])

---------------------------------------------------------------------------
(* The arguments callers pass                                              *)

Ids == 1..MaxId
QUOTE == <<"'">>

\* Names: None, a plain text, a text of two quote characters, and a text
\* ending in a quote character.  INTEGER values go to id and texts to name,
\* so the engine's type conversions do not come into play.
NameInputs == {None, StrVal(<<"a">>), StrVal(<<"'", "'">>), StrVal(<<"a", "'">>)}
StoredNames == {None, StrVal(<<"a">>), StrVal(QUOTE)}

\* select_data: (selection_items, selection_where)
SelectInputs ==
    {<< <<ID, NAME>>, NoWhere >>,
     << <<ID, NAME>>, Where(ID, IntVal(1)) >>,
     << <<NAME>>, Where(NAME, StrVal(<<"a">>)) >>,
     << <<ID, NAME>>, Where(NOPE, IntVal(1)) >>,
     << <<NOPE>>, NoWhere >>,
     << <<INJECTED>>, NoWhere >>}

\* insert_data: (query_columns, query_values)
InsertInputs ==
    {<< <<ID, NAME>>, <<IntVal(i), n>> >> : i \in Ids, n \in NameInputs}
    \cup {<< <<NAME>>, <<n>> >> : n \in {None, StrVal(<<"'", "'">>)}}
    \cup {<< <<NOPE, NAME>>, <<IntVal(1), StrVal(<<"a">>)>> >>,
          << <<ID>>, <<IntVal(1), StrVal(<<"a">>)>> >>}

\* delete_data: (column_name, value_to_delete)
DeleteInputs ==
    {<<ID, IntVal(i)>> : i \in Ids}
    \cup {<<NAME, n>> : n \in StoredNames}
    \cup {<<NOPE, IntVal(1)>>, <<INJECTED, IntVal(1)>>}

\* update_data: (update_data_dictionaries, where_clause), a dictionary being
\* written as its one <<key, value>> item
UpdateInputs ==
    {<< << <<NAME, n>> >>, Where(ID, IntVal(1)) >> : n \in NameInputs}
    \cup {<< << <<ID, IntVal(i)>> >>, Where(ID, IntVal(1)) >> : i \in Ids}
    \cup {<< << <<ID, IntVal(1)>> >>, Where(NAME, StrVal(<<"a">>)) >>,
          << << <<NAME, StrVal(<<"a">>)>>, <<NAME, None>> >>, Where(ID, IntVal(1)) >>,
          << << <<NOPE, IntVal(1)>> >>, Where(ID, IntVal(1)) >>,
          << << <<NAME, None>> >>, Where(NOPE, IntVal(1)) >>,
          << <<>>, Where(ID, IntVal(1)) >>}

\* select_min, select_max, select_avg: (function, column_name)
AggregateInputs ==
    ({MIN, MAX, AVG} \X {ID}) \cup ({MIN} \X {NOPE, INJECTED})

\* count: where_clause
CountInputs ==
    {NoWhere, Where(ID, IntVal(1)), Where(NAME, StrVal(<<"a">>)), Where(NOPE, IntVal(1))}

\* execute_query: query
QueryInputs ==
    {SelectQuery(<<ID, NAME>>, NoWhere), SelectQuery(<<NOPE>>, NoWhere),
     CountQuery(NoWhere),
     DeleteQuery(ID, IntVal(1)), DeleteQuery(NOPE, IntVal(1)),
     InsertQuery(<<ID, NAME>>, <<IntVal(1), StrVal(<<"a">>)>>)}

---------------------------------------------------------------------------
(* Spec: the instance and its API                                          *)

Connection == [committed |-> committed, visible |-> visible,
               in_transaction |-> in_transaction]

NoCall(op) ==
    [op |-> op, idents |-> {}, columns |-> <<>>, values |-> <<>>, where |-> NoWhere,
     query |-> Statement("", <<>>, <<>>, <<>>, NoWhere), before |-> {},
     committed_before |-> {},
     sent |-> FALSE, accepted |-> FALSE, raised |-> "", ret |-> NoRet,
     engine_rows |-> <<>>, description |-> <<>>]

\* A call returns (or raises): the connection moves on and the call is noted.
Returns(op, idents, columns, values, where, query, r) ==
    /\ committed' = r.st.committed
    /\ visible' = r.st.visible
    /\ in_transaction' = r.st.in_transaction
    /\ conn_open' = conn_open
    /\ last' = [op |-> op, idents |-> idents, columns |-> columns, values |-> values,
                where |-> where, query |-> query, before |-> visible,
                committed_before |-> committed,
                sent |-> r.sent, accepted |-> r.accepted, raised |-> r.raised,
                ret |-> r.ret, engine_rows |-> r.engine_rows,
                description |-> r.description]

DbIdle ==
    /\ committed = {}
    /\ visible = {}
    /\ in_transaction = FALSE
    /\ conn_open = FALSE
    /\ last = NoCall("none")

\* After __init__ on a new database file: the table exists and is empty.
DbInit ==
    /\ committed = {}
    /\ visible = {}
    /\ in_transaction = FALSE
    /\ conn_open = TRUE
    /\ last = NoCall("__init__")

ExecuteQuery ==
    /\ conn_open
    /\ \E query \in QueryInputs :
       \E r \in {execute_query(Connection, query)} :
         Returns("execute_query", {}, <<>>, <<>>, NoWhere, query, r)
    /\ UNCHANGED <<sanVars, createVars>>

SelectData ==
    /\ conn_open
    /\ \E in \in SelectInputs :
       \E r \in {select_data(Connection, in[1], in[2])} :
         Returns("select_data", Range(in[1]), in[1], <<>>, in[2],
                 SelectQuery(in[1], in[2]), r)
    /\ UNCHANGED <<sanVars, createVars>>

InsertData ==
    /\ conn_open
    /\ \E in \in InsertInputs :
         \* the ids the engine assigns stay within Ids
         /\ (ID \notin Range(in[1]) => MaxRowId(visible) < MaxId)
         /\ \E r \in {insert_data(Connection, in[1], in[2])} :
              Returns("insert_data", Range(in[1]), in[1], in[2], NoWhere,
                      InsertQuery(in[1], in[2]), r)
    /\ UNCHANGED <<sanVars, createVars>>

DeleteData ==
    /\ conn_open
    /\ \E in \in DeleteInputs :
       \E r \in {delete_data(Connection, in[1], in[2])} :
         Returns("delete_data", {in[1]}, <<in[1]>>, <<in[2]>>, NoWhere,
                 DeleteQuery(in[1], in[2]), r)
    /\ UNCHANGED <<sanVars, createVars>>

UpdateData ==
    /\ conn_open
    /\ \E in \in UpdateInputs :
       \E r \in {update_data(Connection, in[1], in[2])} :
         Returns("update_data", {in[1][i][1] : i \in 1..Len(in[1])},
                 [i \in 1..Len(in[1]) |-> in[1][i][1]],
                 [i \in 1..Len(in[1]) |-> in[1][i][2]], in[2],
                 UpdateQuery(in[1], in[2]), r)
    /\ UNCHANGED <<sanVars, createVars>>

SelectAggregate ==
    /\ conn_open
    /\ \E in \in AggregateInputs :
       \E r \in {select_aggregate(Connection, in[1], in[2])} :
         Returns("select_aggregate", {in[2]}, <<in[2]>>, <<>>, NoWhere,
                 AggregateQuery(in[1], in[2]), r)
    /\ UNCHANGED <<sanVars, createVars>>

Count ==
    /\ conn_open
    /\ \E where \in CountInputs :
       \E r \in {count(Connection, where)} :
         Returns("count", {}, <<>>, <<>>, where, CountQuery(where), r)
    /\ UNCHANGED <<sanVars, createVars>>

\* __exit__ / __close
Close ==
    /\ conn_open
    /\ LET st == ConnClose(Connection)
       IN  /\ committed' = st.committed
           /\ visible' = st.visible
           /\ in_transaction' = st.in_transaction
    /\ conn_open' = FALSE
    /\ last' = [NoCall("close") EXCEPT !.before = visible,
                                       !.committed_before = committed]
    /\ UNCHANGED <<sanVars, createVars>>

\* __init__ again, on the database file an earlier instance left: CREATE
\* TABLE IF NOT EXISTS changes nothing.
Construct ==
    /\ ~conn_open
    /\ conn_open' = TRUE
    /\ last' = NoCall("__init__")
    /\ UNCHANGED <<committed, visible, in_transaction, sanVars, createVars>>

Init == DbInit /\ SanIdle /\ CreateIdle

Next ==
    \/ ExecuteQuery
    \/ SelectData
    \/ InsertData
    \/ DeleteData
    \/ UpdateData
    \/ SelectAggregate
    \/ Count
    \/ Close
    \/ Construct

Spec == Init /\ [][Next]_vars

SanSpecInit == SanInit /\ CreateIdle /\ DbIdle
SanNext == Sanitize /\ UNCHANGED <<createVars, dbVars>>
SanSpec == SanSpecInit /\ [][SanNext]_vars

CreateSpecInit == CreateInit /\ SanIdle /\ DbIdle
CreateNext ==
    \/ ParseTableConfig /\ UNCHANGED <<sanVars, dbVars>>
    \/ CreateTable /\ UNCHANGED <<sanVars, dbVars>>
CreateSpec == CreateSpecInit /\ [][CreateNext]_vars

---------------------------------------------------------------------------
(* Properties                                                              *)

\* ^[A-Za-z_][A-Za-z0-9_]*$ as a pattern on the whole text: one letter or
\* underscore, then letters, digits or underscores only.
ValidIdentifier(s) ==
    /\ Len(s) >= 1
    /\ s[1] \in Letters \cup {Underscore}
    /\ \A i \in 2..Len(s) : s[i] \in Letters \cup Digits \cup {Underscore}

CrudOps == {"select_data", "insert_data", "update_data", "delete_data"}
IdentifierOps == CrudOps \cup {"select_aggregate"}

\* C1: a call whose statement the engine rejects leaves the table contents
\* the instance sees as they were immediately before that call, rows added by
\* earlier successful calls included.
C1_RejectedCallKeepsContents ==
    (conn_open /\ last.sent /\ ~last.accepted) => visible = last.before

\* C2: a CRUD operation whose statement the engine rejects returns, does not
\* raise, and reports success = false.
C2_RejectedCrudReportsFailure ==
    (last.op \in CrudOps /\ last.sent /\ ~last.accepted)
        => (last.raised = "" /\ last.ret.success = FALSE)

\* C3: between API calls no transaction is open on the connection and the
\* committed table contents are the contents the instance sees; in
\* particular a mutation that returned success has been committed.
C3_EveryStatementCommitted ==
    conn_open => (in_transaction = FALSE /\ committed = visible)

\* C4: execute_query never raises and has two outcomes.  An accepted
\* statement is committed and the result is (the engine's rows as mappings
\* from column name to value, in the engine's order, true); a rejected one
\* rolls the open transaction back and the result is ([], false).
C4_ExecuteQueryOutcomes ==
    last.op = "execute_query" =>
        /\ last.sent
        /\ last.raised = ""
        /\ last.ret.kind = "rows"
        /\ in_transaction = FALSE
        /\ committed = visible
        /\ (~last.ret.success => last.ret.rows = <<>>)
        /\ IF EngineExecute(last.before, last.query).ok
           THEN /\ last.ret.success = TRUE
                /\ visible = EngineExecute(last.before, last.query).table
                /\ last.engine_rows = EngineExecute(last.before, last.query).rows
                /\ Len(last.ret.rows) = Len(last.engine_rows)
                /\ \A i \in 1..Len(last.engine_rows) :
                     /\ DOMAIN last.ret.rows[i] = Range(last.description)
                     /\ \A j \in 1..Len(last.description) :
                          last.ret.rows[i][last.description[j]] = last.engine_rows[i][j]
           ELSE /\ last.ret.success = FALSE
                /\ last.ret.rows = <<>>
                /\ visible = last.committed_before

\* A rejected statement handed to execute_query while rows inserted earlier
\* were still uncommitted.
C4_Witness ==
    /\ last.op = "execute_query"
    /\ ~last.accepted
    /\ last.before # last.committed_before

\* C5: count never raises and returns an integer: the number of matching
\* rows when the query succeeds, 0 when it fails.
C5_CountNeverRaises ==
    last.op = "count" =>
        /\ last.raised = ""
        /\ last.ret.kind = "int"
        /\ last.ret.value =
             (IF WhereResolves(last.where)
              THEN Cardinality({r \in last.before : Matches(r, last.where)})
              ELSE 0)

\* C6: an operation given a table or column name that does not match the
\* identifier pattern raises a validation error and hands no statement to
\* the engine.
C6_IdentifiersSanitizedFirst ==
    (last.op \in IdentifierOps /\ \E c \in last.idents : ~ValidIdentifier(c))
        => (last.raised = "ValueError" /\ ~last.sent)

\* C7: sanitize_identifier returns its argument unchanged when it is a letter
\* or underscore followed by letters, digits or underscores, and raises for
\* every other string.
C7_SanitizeAcceptsExactlyIdentifiers ==
    san_outcome # "none" =>
        IF ValidIdentifier(identifier)
        THEN san_outcome = "returned" /\ san_value = identifier
        ELSE san_outcome = "ValueError"

\* The column name a key declares: the key without its leading '*'.
DeclaredName(key) == IF Len(key) > 0 /\ key[1] = "*" THEN Tail(key) ELSE key

\* The names of the keys marked with a leading '*', in declaration order.
RECURSIVE MarkedNames(_)
MarkedNames(section) ==
    IF Len(section) = 0 THEN <<>>
    ELSE (IF section[1][1][1] = "*" THEN <<DeclaredName(section[1][1])>> ELSE <<>>)
         \o MarkedNames(Tail(section))

\* The statement C8 describes: the N column definitions in declaration
\* order, then one PRIMARY KEY clause when a column is marked, the items
\* separated by ", " and nothing before the closing parenthesis.
ExpectedCreateStatement(section) ==
    LET defs == [i \in 1..Len(section) |->
                    DeclaredName(section[i][1]) \o <<" ">> \o section[i][2]]
        marked == MarkedNames(section)
        clause == IF Len(marked) > 0
                  THEN << PrimaryKeyOpen \o Join(<<",", " ">>, marked) \o <<")">> >>
                  ELSE <<>>
    IN  CreateHeader \o db_name \o <<" ", "(">>
        \o Join(<<",", " ">>, defs \o clause) \o <<")">>

\* C8: the CREATE TABLE statement built at construction holds the N column
\* definitions "<name> <type>" in declaration order with the '*' removed,
\* exactly one PRIMARY KEY clause listing the K marked names in declaration
\* order when K > 0, and no such clause and no dangling comma when K = 0.
C8_CreateStatementShape ==
    phase = "created" => command_string = ExpectedCreateStatement(config)

\* Three columns, none marked: the case of the trailing ", ".
C8_Witness ==
    /\ phase = "created"
    /\ Len(config) = 3
    /\ MarkedNames(config) = <<>>

\* C9: after insert_data returned success on an instance whose table was
\* empty, select_data of all columns with no where clause returns success
\* and exactly one row, whose value for each inserted column is the value
\* inserted.
C9_InsertSelectRoundTrip ==
    (conn_open /\ last.op = "insert_data" /\ last.ret.success /\ last.before = {}) =>
        With(select_data(Connection, <<ID, NAME>>, NoWhere), LAMBDA r :
            /\ r.raised = ""
            /\ r.ret.success
            /\ Len(r.ret.rows) = 1
            /\ \A i \in 1..Len(last.columns) :
                 r.ret.rows[1][last.columns[i]] = last.values[i])

\* The rows of a table whose column col equals val (NULL equals nothing).
RowsEqual(table, col, val) == {r \in table : val # None /\ r[col] = val}

=============================================================================
